---- MODULE Spec2Model ----
(***************************************************************************)
(* A model of the Serialized Tree Format engine of src/stf/base.py: the    *)
(* cursor based ByteStream, the header protocol of STFObject, the generic  *)
(* STFArray, and the SerializedTreeFile envelope, with the Card and Deck   *)
(* types of src/deck.py as the composite example.                          *)
(*                                                                         *)
(* Python integers are unbounded.  They are represented here as sequences  *)
(* of base-65536 limbs, most significant first, without leading zero limb  *)
(* (zero is the empty sequence), so that 64-bit fields can be computed.    *)
(* Texts are sequences of Unicode code points.  Bytes are 0..255.          *)
(* Every operation that can raise returns a record whose err field names   *)
(* the exception ("none" when it returns normally).                        *)
(***************************************************************************)
EXTENDS Naturals, Sequences, FiniteSets, TLC

VARIABLES
    stream,     \* the ByteStream under test: its bytes (the bytearray itself)
    position,   \* ByteStream.__position of that stream
    result,     \* what the last call on the stream did
    lastWrite,  \* the last successful typed write on the stream
    ops,        \* number of calls made on the current stream
    disk,       \* the file on disk: whether it exists, its bytes, where they come from
    handle,     \* the session's file handle: "none", "open" or "closed", and its offset
    pc,         \* where the with-block of the session is: "start", "body", "done", "raised"
    mode,       \* the mode the session was constructed with: "r" or "w"
    written,    \* what the last SerializedTreeFile.write call was given
    outcome     \* what the last SerializedTreeFile.read or write call did

streamVars == <<stream, position, result, lastWrite, ops>>
fileVars == <<disk, handle, pc, mode, written, outcome>>
vars == <<stream, position, result, lastWrite, ops, disk, handle, pc, mode, written, outcome>>

----------------------------------------------------------------------------
(* Bounds of the model *)

\* longest array that is serialized
MaxLen == 3
\* calls made on one ByteStream before a new one is created
MaxOps == 2
\* largest byte count asked of read()
MaxRead == 5
\* the longest array of the object calls
MaxElems == 2

----------------------------------------------------------------------------
(* Configuration *)

BOOL_LENGTH == 1
INT_SIZE == 8
\* 0xDEADBEEF as limbs 0xDEAD, 0xBEEF
MAGIC == <<57005, 48879>>
\* 0x00000004
VERSION == <<4>>

----------------------------------------------------------------------------
(* Evaluation *)

\* F(v), with v evaluated once before F is applied to its value: the way
\* a Python statement "x = v" followed by uses of x evaluates v
With(v, F(_)) == CHOOSE y \in {F(x) : x \in {v}} : TRUE

----------------------------------------------------------------------------
(* Integers and their byte encodings *)

\* seq without its leading zeros
StripZeros(seq) ==
    LET nonzero == {i \in 1..Len(seq) : seq[i] # 0}
    IN  IF nonzero = {} THEN <<>>
        ELSE SubSeq(seq, CHOOSE i \in nonzero : \A j \in nonzero : i <= j, Len(seq))

Zeros(n) == [i \in 1..n |-> 0]

\* a small natural number as a Python int
NatToInt(n) ==
    IF n = 0 THEN <<>>
    ELSE IF n < 65536 THEN <<n>>
    ELSE <<n \div 65536, n % 65536>>

\* a Python int known to be small (at most 3 bytes) as a natural number
IntToNat(v) ==
    IF Len(v) = 0 THEN 0
    ELSE IF Len(v) = 1 THEN v[1]
    ELSE v[1] * 65536 + v[2]

\* the big-endian bytes of the limbs, two per limb
LimbBytes(v) ==
    [i \in 1..(2 * Len(v)) |->
        IF i % 2 = 1 THEN v[(i + 1) \div 2] \div 256 ELSE v[i \div 2] % 256]

to_bytes_truncating(value, length) ==
    With(StripZeros(LimbBytes(value)), LAMBDA m :
        [err |-> "none",
         bytes |-> IF Len(m) > length THEN SubSeq(m, Len(m) - length + 1, Len(m))
                   ELSE Zeros(length - Len(m)) \o m])

\* int.to_bytes(length, "big", signed=False) of a non-negative int
to_bytes(value, length) ==
    With(StripZeros(LimbBytes(value)), LAMBDA m :
        IF Len(m) > length
        THEN [err |-> "OverflowError", bytes |-> <<>>]
        ELSE [err |-> "none", bytes |-> Zeros(length - Len(m)) \o m])

\* int.from_bytes(bytes, "big", signed=False)
from_bytes(bytes) ==
    With(IF Len(bytes) % 2 = 1 THEN <<0>> \o bytes ELSE bytes, LAMBDA padded :
        StripZeros([i \in 1..(Len(padded) \div 2) |->
                        padded[2 * i - 1] * 256 + padded[2 * i]]))

----------------------------------------------------------------------------
(* Text: str.encode("utf-8") and bytearray.decode("utf-8") *)

\* the UTF-8 bytes of one code point
EncodeChar(cp) ==
    IF cp < 128 THEN <<cp>>
    ELSE IF cp < 2048 THEN <<192 + (cp \div 64), 128 + (cp % 64)>>
    ELSE IF cp < 65536
         THEN <<224 + (cp \div 4096), 128 + ((cp \div 64) % 64), 128 + (cp % 64)>>
    ELSE <<240 + (cp \div 262144), 128 + ((cp \div 4096) % 64),
           128 + ((cp \div 64) % 64), 128 + (cp % 64)>>

\* str.encode: surrogates cannot be encoded
RECURSIVE encode(_)
encode(text) ==
    IF text = <<>> THEN [err |-> "none", bytes |-> <<>>]
    ELSE IF Head(text) >= 55296 /\ Head(text) <= 57343
         THEN [err |-> "UnicodeEncodeError", bytes |-> <<>>]
    ELSE With(encode(Tail(text)), LAMBDA rest :
            IF rest.err # "none" THEN rest
            ELSE [err |-> "none", bytes |-> EncodeChar(Head(text)) \o rest.bytes])

\* number of bytes the sequence starting with lead byte b takes, 0 when b is no lead
SeqLen(b) ==
    IF b < 128 THEN 1
    ELSE IF b >= 194 /\ b <= 223 THEN 2
    ELSE IF b >= 224 /\ b <= 239 THEN 3
    ELSE IF b >= 240 /\ b <= 244 THEN 4
    ELSE 0

IsContinuation(b) == b >= 128 /\ b <= 191

\* the code point of the n bytes at the head of bytes
CodePoint(bytes, n) ==
    IF n = 1 THEN bytes[1]
    ELSE IF n = 2 THEN (bytes[1] - 192) * 64 + (bytes[2] - 128)
    ELSE IF n = 3
         THEN (bytes[1] - 224) * 4096 + (bytes[2] - 128) * 64 + (bytes[3] - 128)
    ELSE (bytes[1] - 240) * 262144 + (bytes[2] - 128) * 4096
         + (bytes[3] - 128) * 64 + (bytes[4] - 128)

\* the smallest code point that needs n bytes
MinCodePoint(n) ==
    IF n = 1 THEN 0 ELSE IF n = 2 THEN 128 ELSE IF n = 3 THEN 2048 ELSE 65536

\* bytearray.decode: a byte sequence that is no UTF-8 raises
RECURSIVE decode(_)
decode(bytes) ==
    IF bytes = <<>> THEN [err |-> "none", text |-> <<>>]
    ELSE LET n == SeqLen(Head(bytes))
             bad == [err |-> "UnicodeDecodeError", text |-> <<>>]
         IN  IF n = 0 \/ Len(bytes) < n THEN bad
             ELSE IF \E i \in 2..n : ~IsContinuation(bytes[i]) THEN bad
             ELSE With(CodePoint(bytes, n), LAMBDA cp :
                    IF cp < MinCodePoint(n) \/ cp > 1114111
                       \/ (cp >= 55296 /\ cp <= 57343)
                    THEN bad
                    ELSE With(decode(SubSeq(bytes, n + 1, Len(bytes))), LAMBDA rest :
                            IF rest.err # "none" THEN bad
                            ELSE [err |-> "none", text |-> <<cp>> \o rest.text]))

----------------------------------------------------------------------------
(* ByteStream.  A stream value is [bytes, pos]; an operation returns       *)
(* [err, s, ret]: the exception raised or "none", the stream after the     *)
(* call and the value returned.                                            *)

\* ByteStream(initial_position=0, old_array)
ByteStream(old_array) == [bytes |-> old_array, pos |-> 0]

Raise(e, s) == [err |-> e, s |-> s, ret |-> <<>>]
Return(s, v) == [err |-> "none", s |-> s, ret |-> v]

read_partial(s, length) ==
    IF length <= 0 THEN Return(s, <<>>)
    ELSE LET new_position == s.pos + length
             end == IF new_position > Len(s.bytes) THEN Len(s.bytes) ELSE new_position
         IN  Return([s EXCEPT !.pos = end], SubSeq(s.bytes, s.pos + 1, end))

\* read(length)
read(s, length) ==
    IF length <= 0 THEN Return(s, <<>>)
    ELSE LET new_position == s.pos + length
         IN  IF new_position > Len(s.bytes)
             THEN Raise("STFOverRead", s)
             ELSE Return([s EXCEPT !.pos = new_position],
                         SubSeq(s.bytes, s.pos + 1, new_position))

read_int_little(s, length) ==
    With(read(s, length), LAMBDA r :
        IF r.err # "none" THEN r
        ELSE Return(r.s, from_bytes([i \in 1..Len(r.ret) |-> r.ret[Len(r.ret) + 1 - i]])))

\* read_int(length, byteorder="big", signed=False)
read_int(s, length) ==
    With(read(s, length), LAMBDA r :
        IF r.err # "none" THEN r ELSE Return(r.s, from_bytes(r.ret)))

\* bytearray.index(value, start): [found, at], at counted from 0
index(bytes, value, start) ==
    LET hits == {i \in (start + 1)..Len(bytes) : bytes[i] = value}
    IN  IF hits = {} THEN [found |-> FALSE, at |-> 0]
        ELSE [found |-> TRUE,
              at |-> (CHOOSE i \in hits : \A j \in hits : i <= j) - 1]

\* read_str with length > 0: read(length).decode(encoding)
read_str_fixed(s, length) ==
    With(read(s, length), LAMBDA r :
        IF r.err # "none" THEN r
        ELSE With(decode(r.ret), LAMBDA d :
                IF d.err # "none" THEN Raise(d.err, r.s) ELSE Return(r.s, d.text)))

read_str_to_end(s, length) ==
    IF length > 0 THEN read_str_fixed(s, length)
    ELSE With(index(s.bytes, 0, s.pos), LAMBDA z :
            LET zero_index == (IF z.found THEN z.at ELSE Len(s.bytes)) - s.pos
            IN  IF zero_index <= 0 THEN Raise("RecursionError", s)
                ELSE With(read_str_fixed(s, zero_index), LAMBDA inner :
                        IF inner.err # "none" \/ ~z.found THEN inner
                        ELSE Return(read(inner.s, 1).s, inner.ret)))

\* read_str(length, encoding="utf-8").  With length 0 and the zero byte at
\* the cursor, zero_index is 0 and the call read_str(0) is the same call on
\* the same state again: the recursion never ends and the interpreter
\* raises RecursionError, nothing having been read.
read_str(s, length) ==
    IF length > 0 THEN read_str_fixed(s, length)
    ELSE With(index(s.bytes, 0, s.pos), LAMBDA z :
            IF ~z.found THEN Raise("STFUnboundStringException", s)
            ELSE LET zero_index == z.at - s.pos
                 IN  IF zero_index = 0 THEN Raise("RecursionError", s)
                     ELSE With(read_str_fixed(s, zero_index), LAMBDA inner :
                            IF inner.err # "none" THEN inner
                            ELSE Return(read(inner.s, 1).s, inner.ret)))

\* read_bool: bool(self.read(1)), the truth value of the bytearray read,
\* which is whether it holds any byte
read_bool(s) ==
    With(read(s, 1), LAMBDA r :
        IF r.err # "none" THEN r ELSE Return(r.s, Len(r.ret) # 0))

write_moving_cursor(s, bytes) ==
    [bytes |-> s.bytes \o bytes, pos |-> Len(s.bytes) + Len(bytes)]

\* write(data): the bytes are appended
write(s, bytes) == [s EXCEPT !.bytes = @ \o bytes]

\* write_int(value, byteorder="big", length, signed=False)
write_int(s, value, length) ==
    With(to_bytes(value, length), LAMBDA b :
        IF b.err # "none" THEN Raise(b.err, s) ELSE Return(write(s, b.bytes), <<>>))

\* write_str(value, zero_terminated, encoding="utf-8")
write_str(s, value, zero_terminated) ==
    With(encode(IF zero_terminated THEN value \o <<0>> ELSE value), LAMBDA b :
        IF b.err # "none" THEN Raise(b.err, s) ELSE Return(write(s, b.bytes), <<>>))

\* write_bool: write_int(value, length=BOOL_LENGTH), True being 1 and False 0
write_bool(s, value) ==
    write_int(s, IF value THEN <<1>> ELSE <<>>, BOOL_LENGTH)

----------------------------------------------------------------------------
(* STFObject, STFArray and the Card and Deck types *)

\* the sum of f[lo], ..., f[hi] modulo 65521
RECURSIVE Sum(_, _, _)
Sum(f, lo, hi) ==
    IF lo > hi THEN 0
    ELSE IF lo = hi THEN f[lo] % 65521
    ELSE LET mid == (lo + hi) \div 2
         IN  (Sum(f, lo, mid) + Sum(f, mid + 1, hi)) % 65521

\* ByteStream.hash: the SHA-256 digest of the bytes folded to its low 64
\* bits.  The digest itself is not computed: four 16-bit limbs of a
\* checksum stand for it, a fixed function of the bytes, their number and
\* their order.
Checksum(bytes, mult, seed) ==
    (seed + Len(bytes) +
     Sum([i \in 1..Len(bytes) |-> (bytes[i] + 1) * (((i * mult) % 251) + 1)],
         1, Len(bytes))) % 65521

hash(bytes) ==
    StripZeros(<<Checksum(bytes, 31, 7), Checksum(bytes, 37, 11),
                 Checksum(bytes, 41, 13), Checksum(bytes, 43, 17)>>)

\* Utility.encode_nibbles and Utility.decode_nibbles
encode_nibbles(first, second) == (first % 16) * 16 + (second % 16)
decode_nibbles(num) == <<(num % 256) \div 16, num % 16>>

\* The array types: the element kind, the three field widths of the class
\* and has_metadata.  STFArray[int] keeps the widths of STFObject and
\* STFArray, Deck overrides the three of them.
IntArray ==
    [elem |-> "int", max_field_size |-> 4, max_metadata_size |-> 3,
     max_elem_field_width |-> 2, has_metadata |-> TRUE]
Deck ==
    [elem |-> "Card", max_field_size |-> 1, max_metadata_size |-> 1,
     max_elem_field_width |-> 1, has_metadata |-> TRUE]
ArrayTypes == {IntArray, Deck}

\* STFArray[str], STFArray[bool] and STFArray[STFArray[int]]
StrArray == [IntArray EXCEPT !.elem = "str"]
BoolArray == [IntArray EXCEPT !.elem = "bool"]
NestedArray == [IntArray EXCEPT !.elem = "STFArray"]
\* a subclass of STFArray[int] that sets has_metadata = False and whose
\* metadata() is empty
BareArray == [IntArray EXCEPT !.has_metadata = FALSE]

\* STFArray.metadata: the number of elements; the metadata of BareArray is
\* the empty ByteStream
metadata(array, T) ==
    IF ~T.has_metadata THEN [err |-> "none", bytes |-> <<>>]
    ELSE With(write_int(ByteStream(<<>>), NatToInt(Len(array)), T.max_elem_field_width),
              LAMBDA w : [err |-> w.err, bytes |-> w.s.bytes])

\* Card.data: one byte holding suit and rank; Card.serialize is data() alone
\* since Card.requires_header is False
Card_data(card) ==
    write_int(ByteStream(<<>>), NatToInt(encode_nibbles(card.suit, card.rank)), 1)

\* Card.deserialize: Suit(_suit) and Rank(_rank) raise ValueError for a
\* number that is no member of the enumeration
Card_deserialize(s) ==
    With(read_int(s, 1), LAMBDA r :
        IF r.err # "none" THEN r
        ELSE With(decode_nibbles(IntToNat(r.ret)), LAMBDA nib :
                IF nib[1] > 3 \/ nib[2] > 12 THEN Raise("ValueError", r.s)
                ELSE Return(r.s, [suit |-> nib[1], rank |-> nib[2]])))

\* isinstance(item, STFObject), isinstance(item, int) and issubclass for the
\* kinds of item: bool is a subclass of int
is_STFObject(kind) == kind \in {"Card", "STFArray"}
is_int(kind) == kind \in {"int", "bool"}

\* the int a bool is: True is 1, False is 0
int_of(item, kind) ==
    IF kind = "bool" THEN (IF item THEN <<1>> ELSE <<>>) ELSE item

RECURSIVE convert(_, _, _)
RECURSIVE deconvert(_, _, _)
RECURSIVE data(_, _, _)
RECURSIVE header(_, _)
RECURSIVE serialize(_, _, _)
RECURSIVE deserialize(_, _, _)

\* item.serialize() of an STFObject item, as the ByteStream convert returns
object_serialize(item, kind) ==
    IF kind = "Card" THEN Card_data(item)
    ELSE With(serialize(item, IntArray, INT_SIZE), LAMBDA o :
            IF o.err # "none" THEN Raise(o.err, ByteStream(<<>>))
            ELSE Return(ByteStream(o.bytes), <<>>))

convert_without_options(item, kind, length) ==
    IF is_STFObject(kind) THEN object_serialize(item, kind)
    ELSE IF is_int(kind) THEN write_int(ByteStream(<<>>), int_of(item, kind), INT_SIZE)
    ELSE IF kind = "str" THEN write_str(ByteStream(<<>>), item, TRUE)
    ELSE IF kind = "bool" THEN write_bool(ByteStream(<<>>), item)
    ELSE Raise("STFInvalidTypeException", ByteStream(<<>>))

\* ByteStream.convert(item, length=...), the tests in the order of the code:
\* an STFObject serializes itself with no options; an int, and a bool with
\* it, goes to write_int with the options; a str goes to write_str, which
\* knows no length option (length = INT_SIZE stands for no option given); the
\* arm of bool comes after the arm of int
convert(item, kind, length) ==
    IF is_STFObject(kind) THEN object_serialize(item, kind)
    ELSE IF is_int(kind) THEN write_int(ByteStream(<<>>), int_of(item, kind), length)
    ELSE IF kind = "str"
         THEN IF length # INT_SIZE THEN Raise("TypeError", ByteStream(<<>>))
              ELSE write_str(ByteStream(<<>>), item, TRUE)
    ELSE IF kind = "bool" THEN write_bool(ByteStream(<<>>), item)
    ELSE Raise("STFInvalidTypeException", ByteStream(<<>>))

\* ByteStream.deconvert(target_type, length=...), the tests in the order of
\* the code; an STFObject type deserializes with no options
deconvert(s, kind, length) ==
    IF is_STFObject(kind)
    THEN IF kind = "Card" THEN Card_deserialize(s)
         ELSE deserialize(s, IntArray, INT_SIZE)
    ELSE IF is_int(kind) THEN read_int(s, length)
    ELSE IF kind = "str"
         THEN IF length # INT_SIZE THEN Raise("TypeError", s)
              ELSE read_str(s, 0)
    ELSE IF kind = "bool" THEN read_bool(s)
    ELSE Raise("STFInvalidTypeException", s)

\* the concatenation of seqs[lo], ..., seqs[hi] in order
RECURSIVE extend(_, _, _)
extend(seqs, lo, hi) ==
    IF lo > hi THEN <<>>
    ELSE IF lo = hi THEN seqs[lo]
    ELSE LET mid == (lo + hi) \div 2
         IN  extend(seqs, lo, mid) \o extend(seqs, mid + 1, hi)

\* STFArray.data(length=...): the elements' conversions extended in order;
\* the first conversion that raises ends the loop
data(array, T, length) ==
    With([i \in 1..Len(array) |-> convert(array[i], T.elem, length)], LAMBDA converted :
        LET raised == {i \in 1..Len(array) : converted[i].err # "none"}
        IN  IF raised # {}
            THEN [err |-> converted[CHOOSE i \in raised : \A j \in raised : i <= j].err,
                  bytes |-> <<>>]
            ELSE [err |-> "none",
                  bytes |-> extend([i \in 1..Len(array) |-> converted[i].s.bytes],
                                   1, Len(array))])

\* STFObject.header: hash and length of data() called without the options,
\* then, if the type has metadata, the metadata length and the metadata
header(array, T) ==
    With(data(array, T, INT_SIZE), LAMBDA d :
      IF d.err # "none" THEN d
      ELSE With(hash(d.bytes), LAMBDA hashed :
      With(write_int(ByteStream(<<>>), hashed, INT_SIZE), LAMBDA h :
      IF h.err # "none" THEN [err |-> h.err, bytes |-> <<>>]
      ELSE With(write_int(h.s, NatToInt(Len(d.bytes)), T.max_field_size), LAMBDA z :
      IF z.err # "none" THEN [err |-> z.err, bytes |-> <<>>]
      ELSE IF ~T.has_metadata THEN [err |-> "none", bytes |-> z.s.bytes]
      ELSE With(metadata(array, T), LAMBDA m :
      IF m.err # "none" THEN m
      ELSE With(write_int(z.s, NatToInt(Len(m.bytes)), T.max_metadata_size), LAMBDA l :
      IF l.err # "none" THEN [err |-> l.err, bytes |-> <<>>]
      ELSE [err |-> "none", bytes |-> l.s.bytes \o m.bytes]))))))

\* STFObject.serialize(length=...): header() then data(length=...)
serialize(array, T, length) ==
    With(header(array, T), LAMBDA h :
        IF h.err # "none" THEN h
        ELSE With(data(array, T, length), LAMBDA d :
                IF d.err # "none" THEN d
                ELSE [err |-> "none", bytes |-> h.bytes \o d.bytes]))

read_header_default_widths(s, T) ==
    With(read_int(s, INT_SIZE), LAMBDA hashed :
      IF hashed.err # "none" THEN hashed
      ELSE With(read_int(hashed.s, IntArray.max_field_size), LAMBDA size :
      IF size.err # "none" THEN size
      ELSE IF ~T.has_metadata
           THEN Return(size.s, [hash |-> hashed.ret, size |-> size.ret,
                                metadata |-> <<>>])
      ELSE With(read_int(size.s, IntArray.max_metadata_size), LAMBDA metadata_length :
      IF metadata_length.err # "none" THEN metadata_length
      ELSE With(read(metadata_length.s, IntToNat(metadata_length.ret)), LAMBDA meta :
      IF meta.err # "none" THEN meta
      ELSE Return(meta.s, [hash |-> hashed.ret, size |-> size.ret,
                           metadata |-> meta.ret])))))

\* STFObject.read_header: ret is the Header [hash, size, metadata]
read_header(s, T) ==
    With(read_int(s, INT_SIZE), LAMBDA hashed :
      IF hashed.err # "none" THEN hashed
      ELSE With(read_int(hashed.s, T.max_field_size), LAMBDA size :
      IF size.err # "none" THEN size
      ELSE IF ~T.has_metadata
           THEN Return(size.s, [hash |-> hashed.ret, size |-> size.ret,
                                metadata |-> <<>>])
      ELSE With(read_int(size.s, T.max_metadata_size), LAMBDA metadata_length :
      IF metadata_length.err # "none" THEN metadata_length
      ELSE With(read(metadata_length.s, IntToNat(metadata_length.ret)), LAMBDA meta :
      IF meta.err # "none" THEN meta
      ELSE Return(meta.s, [hash |-> hashed.ret, size |-> size.ret,
                           metadata |-> meta.ret])))))

\* the loop of STFArray.deserialize: num_elems calls of deconvert one after
\* the other on the same stream, each result appended; the first call that
\* raises ends the loop.  The iterations are taken as two consecutive runs
\* of the loop, the second starting on the stream the first has left.
RECURSIVE Elements(_, _, _, _, _)
Elements(s, T, length, num_elems, acc) ==
    IF num_elems = 0 THEN Return(s, acc)
    ELSE IF num_elems = 1
    THEN With(deconvert(s, T.elem, length), LAMBDA e :
            IF e.err # "none" THEN Raise(e.err, e.s)
            ELSE Return(e.s, Append(acc, e.ret)))
    ELSE With(Elements(s, T, length, num_elems \div 2, acc), LAMBDA first :
            IF first.err # "none" THEN first
            ELSE Elements(first.s, T, length, num_elems - (num_elems \div 2), first.ret))

deserialize_checked(s, T, length) ==
    With(read_header(s, T), LAMBDA h :
        IF h.err # "none" THEN h
        ELSE With(read_int(ByteStream(h.ret.metadata), T.max_elem_field_width),
                  LAMBDA n :
                IF n.err # "none" THEN Raise(n.err, h.s)
                ELSE With(Elements(h.s, T, length, IntToNat(n.ret), <<>>), LAMBDA e :
                        IF e.err = "none" /\ NatToInt(e.s.pos - h.s.pos) # h.ret.size
                        THEN Raise("STFIntegrityError", e.s)
                        ELSE e)))

\* STFArray.deserialize(data, length=...)
deserialize(s, T, length) ==
    With(read_header(s, T), LAMBDA h :
        IF h.err # "none" THEN h
        ELSE With(read_int(ByteStream(h.ret.metadata), T.max_elem_field_width),
                  LAMBDA n :
                IF n.err # "none" THEN Raise(n.err, h.s)
                ELSE With(IntToNat(n.ret), LAMBDA num_elems :
                        Elements(h.s, T, length, num_elems, <<>>))))

----------------------------------------------------------------------------
(* SerializedTreeFile *)

version_validation_any(version) == TRUE

\* Utility.version_validation
version_validation(version) == version = VERSION

\* the bytes SerializedTreeFile.write hands to the file
file_write(array, T, length) ==
    With(write_int(ByteStream(<<>>), MAGIC, 4), LAMBDA m :
    With(write_int(m.s, VERSION, 4), LAMBDA v :
    With(serialize(array, T, length), LAMBDA o :
        IF o.err # "none" THEN o
        ELSE [err |-> "none", bytes |-> write(v.s, o.bytes).bytes])))

\* SerializedTreeFile.read over the bytes of the file: err and ret as
\* before, s the stream afterwards; called says whether
\* target_type.deserialize was called and at the cursor it was given
file_read(bytes, T, length) ==
    LET none == [called |-> FALSE, at |-> 0]
    IN  With(read_int(ByteStream(bytes), 4), LAMBDA magic :
          IF magic.err # "none" THEN magic @@ none
          ELSE With(read_int(magic.s, 4), LAMBDA version :
          IF version.err # "none" THEN version @@ none
          ELSE IF magic.ret # MAGIC
               THEN Raise("STFMagicNumberException", version.s) @@ none
          ELSE IF ~version_validation(version.ret)
               THEN Raise("STFVersionException", version.s) @@ none
          ELSE With(deserialize(version.s, T, length), LAMBDA root :
                  root @@ [called |-> TRUE, at |-> version.s.pos])))

----------------------------------------------------------------------------
(* Inputs of the calls *)

Widths == {1, 2, 4, INT_SIZE}

\* 0, 10, the largest value of each width and the value one past it
IntValues ==
    {<<>>, <<10>>, <<255>>, <<256>>, <<65535>>, <<1, 0>>,
     <<65535, 65535>>, <<1, 0, 0>>, <<65535, 65535, 65535, 65535>>}

\* "", "a", "ace", "e acute", "a NUL b"
Texts == {<<>>, <<97>>, <<97, 99, 101>>, <<233>>, <<97, 0, 98>>}

InitialArrays == {<<>>, <<1, 2, 3>>, <<255, 0>>}

SeqsUpTo(S, n) == UNION {[1..k -> S] : k \in 0..n}

\* 10 and 256 as array elements; the ace of hearts and the king of diamonds
IntElems == {<<10>>, <<256>>}
Cards == {[suit |-> 0, rank |-> 0], [suit |-> 3, rank |-> 12]}

\* files not written by this program: four zero bytes, eight bytes with a
\* wrong magic number and the right version, and the envelope of version 3
ForeignSources ==
    {<<0, 0, 0, 0>>, <<0, 0, 0, 0, 0, 0, 0, 4>>, <<222, 173, 190, 239, 0, 0, 0, 3>>}

ArraysOf(T) == SeqsUpTo(IF T.elem = "Card" THEN Cards ELSE IntElems, MaxLen)

\* the length option given to serialize and deserialize: a Card ignores it,
\* so only the default is tried on a Deck
LengthsFor(T) == IF T.elem = "Card" THEN {INT_SIZE} ELSE Widths

\* the types of the object calls, the elements tried for each kind (the
\* texts "" and "a"; the arrays [] and [10] as elements of a nested array)
\* and the item kinds given to convert, float being no Convertable
ObjectTypes ==
    {IntArray, Deck, StrArray, BoolArray, NestedArray, BareArray}
ElemsOf(kind) ==
    CASE kind = "int" -> IntElems
      [] kind = "Card" -> Cards
      [] kind = "str" -> {<<>>, <<97>>}
      [] kind = "bool" -> BOOLEAN
      [] kind = "STFArray" -> {<<>>, <<<<10>>>>}
      [] OTHER -> {<<>>}
Kinds == {"int", "Card", "str", "bool", "STFArray", "float"}

\* the largest value of a field of w bytes
FieldMax(w) == IF w = 1 THEN 255 ELSE 65535

\* decks whose number of cards is the largest value of the one-byte
\* element-count field of Deck, and one more
LongDecks ==
    {[i \in 1..n |-> [suit |-> 0, rank |-> 0]] :
        n \in {FieldMax(Deck.max_elem_field_width),
               FieldMax(Deck.max_elem_field_width) + 1}}

InstancesOf(T) ==
    SeqsUpTo(ElemsOf(T.elem), MaxElems) \cup (IF T = Deck THEN LongDecks ELSE {})

\* the length option: only int and bool elements take one
OptionsFor(T) == IF is_int(T.elem) THEN Widths ELSE {INT_SIZE}

----------------------------------------------------------------------------
(* Calls on the ByteStream under test *)

Cur == [bytes |-> stream, pos |-> position]

NoWrite == [kind |-> "none", value |-> <<>>, length |-> 0, start |-> 0, size |-> 0]

\* a call op(arg, length) on the stream that ended as r
Called(op, arg, length, r) ==
    /\ ops < MaxOps
    /\ stream' = r.s.bytes
    /\ position' = r.s.pos
    /\ result' = [op |-> op, err |-> r.err, ret |-> r.ret, arg |-> arg,
                  length |-> length, pre |-> Cur]
    /\ ops' = ops + 1
    /\ UNCHANGED fileVars

Wrote(kind, value, length, r) ==
    lastWrite' =
        IF r.err = "none"
        THEN [kind |-> kind, value |-> value, length |-> length,
              start |-> Len(stream), size |-> Len(r.s.bytes) - Len(stream)]
        ELSE lastWrite

NewStream ==
    /\ \E old_array \in InitialArrays :
        /\ stream' = ByteStream(old_array).bytes
        /\ position' = ByteStream(old_array).pos
    /\ result' = [op |-> "init", err |-> "none", ret |-> <<>>, arg |-> <<>>, length |-> 0,
                  pre |-> ByteStream(<<>>)]
    /\ lastWrite' = NoWrite
    /\ ops' = 0
    /\ UNCHANGED fileVars

CallRead ==
    \E length \in 0..MaxRead :
        /\ Called("read", <<>>, length, read(Cur, length))
        /\ UNCHANGED lastWrite

CallReadInt ==
    \E length \in Widths :
        /\ Called("read_int", <<>>, length, read_int(Cur, length))
        /\ UNCHANGED lastWrite

CallReadStr ==
    \E length \in 0..2 :
        /\ Called("read_str", <<>>, length, read_str(Cur, length))
        /\ UNCHANGED lastWrite

CallReadBool ==
    /\ Called("read_bool", <<>>, 1, read_bool(Cur))
    /\ UNCHANGED lastWrite

CallWriteInt ==
    \E value \in IntValues, length \in Widths :
        LET r == write_int(Cur, value, length)
        IN  /\ Called("write_int", value, length, r)
            /\ Wrote("int", value, length, r)

CallWriteStr ==
    \E value \in Texts :
        LET r == write_str(Cur, value, TRUE)
        IN  /\ Called("write_str", value, 0, r)
            /\ Wrote("str", value, 0, r)

CallWriteBool ==
    \E value \in BOOLEAN :
        LET r == write_bool(Cur, value)
        IN  /\ Called("write_bool", value, BOOL_LENGTH, r)
            /\ Wrote("bool", value, BOOL_LENGTH, r)

----------------------------------------------------------------------------
(* Calls on objects: the ByteStream a call returns becomes the stream      *)
(* under test                                                              *)

\* what the stream under test was made of: the header of array o of type T
\* and, once complete, the data of array p encoded with the length option
Built(T, o, p, complete, length) ==
    [kind |-> "object", value |-> [T |-> T, o |-> o, p |-> p, complete |-> complete],
     length |-> length, start |-> 0, size |-> 0]

\* a call op(arg, length) that returned the ByteStream bytes or raised err;
\* a run makes one such call and then calls on the stream it returned
Returned(op, arg, length, err, bytes) ==
    /\ result.op = "init"
    /\ stream' = ByteStream(bytes).bytes
    /\ position' = ByteStream(bytes).pos
    /\ result' = [op |-> op, err |-> err, ret |-> bytes, arg |-> arg,
                  length |-> length, pre |-> ByteStream(<<>>)]
    /\ ops' = 0
    /\ UNCHANGED fileVars

\* o.header()
CallHeader ==
    \E T \in ObjectTypes :
      \E o \in InstancesOf(T) :
        LET r == header(o, T)
        IN  /\ Returned("header", [T |-> T, o |-> o], INT_SIZE, r.err, r.bytes)
            /\ lastWrite' = IF r.err = "none" THEN Built(T, o, <<>>, FALSE, INT_SIZE)
                            ELSE NoWrite

\* o.metadata()
CallMetadata ==
    \E T \in ObjectTypes :
      \E o \in InstancesOf(T) :
        LET r == metadata(o, T)
        IN  /\ Returned("metadata", [T |-> T, o |-> o], INT_SIZE, r.err, r.bytes)
            /\ lastWrite' = NoWrite

\* o.serialize(length=...)
CallSerialize ==
    \E T \in ObjectTypes :
      \E o \in InstancesOf(T), length \in OptionsFor(T) :
        LET r == serialize(o, T, length)
        IN  /\ Returned("serialize", [T |-> T, o |-> o], length, r.err, r.bytes)
            /\ lastWrite' = IF r.err = "none" THEN Built(T, o, o, TRUE, length)
                            ELSE NoWrite

\* stream.write(p.data(length=...)) after a header: the data of an array
\* that need not be the array of the header
CallWriteData ==
    /\ lastWrite.kind = "object"
    /\ ~lastWrite.value.complete
    /\ LET T == lastWrite.value.T
       IN  \E p \in SeqsUpTo(ElemsOf(T.elem), MaxElems), length \in OptionsFor(T) :
             LET d == data(p, T, length)
                 r == IF d.err # "none" THEN Raise(d.err, Cur)
                      ELSE Return(write(Cur, d.bytes), <<>>)
             IN  /\ Called("write", [T |-> T, o |-> p], length, r)
                 /\ lastWrite' = IF r.err = "none"
                                 THEN Built(T, lastWrite.value.o, p, TRUE, length)
                                 ELSE lastWrite

\* T.read_header(stream), T the type the stream was made for
CallReadHeader ==
    /\ lastWrite.kind = "object"
    /\ LET T == lastWrite.value.T
       IN  /\ Called("read_header", [T |-> T], INT_SIZE, read_header(Cur, T))
           /\ UNCHANGED lastWrite

\* T.deserialize(stream, length=...)
CallDeserialize ==
    /\ lastWrite.kind = "object"
    /\ LET T == lastWrite.value.T
       IN  \E length \in OptionsFor(T) :
             /\ Called("deserialize", [T |-> T], length, deserialize(Cur, T, length))
             /\ UNCHANGED lastWrite

\* ByteStream.convert(item) with no options
CallConvert ==
    \E kind \in Kinds :
      \E item \in ElemsOf(kind) :
        LET r == convert(item, kind, INT_SIZE)
        IN  /\ Returned("convert", [kind |-> kind, item |-> item], INT_SIZE,
                        r.err, r.s.bytes)
            /\ lastWrite' = [NoWrite EXCEPT !.kind = "convert",
                                            !.value = [kind |-> kind, item |-> item]]

\* stream.deconvert(target_type) with no options
CallDeconvert ==
    /\ lastWrite.kind = "convert"
    /\ \E kind \in Kinds :
        /\ Called("deconvert", [kind |-> kind], INT_SIZE, deconvert(Cur, kind, INT_SIZE))
        /\ UNCHANGED lastWrite

----------------------------------------------------------------------------
(* The session: with SerializedTreeFile(filename, mode) as f: ...          *)

\* the record of a call on the session
NoOutcome ==
    [op |-> "none", err |-> "none", ret |-> <<>>, cursor |-> 0, called |-> FALSE,
     at |-> 0, T |-> IntArray, length |-> 0, input |-> <<>>]

\* __init__ and __enter__: open(filename, mode + "b").  Opening for reading
\* a file that does not exist raises and the block is not entered; opening
\* for writing creates or empties the file.
Enter ==
    /\ pc = "start"
    /\ \E m \in {"r", "w"} :
        /\ mode' = m
        /\ IF m = "r" /\ ~disk.exists
           THEN /\ outcome' = [NoOutcome EXCEPT !.op = "enter", !.err = "FileNotFoundError"]
                /\ UNCHANGED <<handle, pc, disk>>
           ELSE /\ outcome' = [NoOutcome EXCEPT !.op = "enter"]
                /\ handle' = [state |-> "open", offset |-> 0]
                /\ pc' = "body"
                /\ disk' = IF m = "w"
                           THEN [exists |-> TRUE, bytes |-> <<>>, origin |-> "none"]
                           ELSE disk
    /\ UNCHANGED <<written>>
    /\ UNCHANGED streamVars

exit_keep_open_on_error(h, p) ==
    IF p = "raised" THEN h ELSE [state |-> "closed", offset |-> 0]

\* __exit__: self.file.close()
exit(h, p) == [state |-> "closed", offset |-> 0]

\* the end of the with-block, reached normally or by an exception, which
\* then leaves the block; the value a call returned is dropped
Exit ==
    /\ pc \in {"body", "done", "raised"}
    /\ handle' = exit(handle, pc)
    /\ pc' = "start"
    /\ outcome' = [NoOutcome EXCEPT !.op = "exit", !.err = outcome.err]
    /\ UNCHANGED <<disk, mode, written>>
    /\ UNCHANGED streamVars

\* SerializedTreeFile.write(obj, length=...), once in a block
FileWrite ==
    /\ pc = "body"
    /\ mode = "w"
    /\ \E T \in ArrayTypes :
        \E array \in ArraysOf(T), length \in LengthsFor(T) :
            LET w == file_write(array, T, length)
            IN  /\ written' = [array |-> array, T |-> T, length |-> length, err |-> w.err]
                /\ outcome' = [NoOutcome EXCEPT !.op = "write", !.err = w.err,
                                                 !.T = T, !.length = length]
                /\ IF w.err = "none"
                   THEN /\ disk' = [disk EXCEPT !.bytes = @ \o w.bytes, !.origin = "write"]
                        /\ handle' = [handle EXCEPT !.offset = @ + Len(w.bytes)]
                        /\ pc' = "done"
                   ELSE /\ pc' = "raised"
                        /\ UNCHANGED <<disk, handle>>
    /\ UNCHANGED mode
    /\ UNCHANGED streamVars

\* SerializedTreeFile.read(target_type, length=...): self.file.read() gives
\* the bytes from the handle's offset to the end of the file
FileRead ==
    /\ pc = "body"
    /\ mode = "r"
    /\ \E T \in ArrayTypes :
      \E length \in LengthsFor(T) :
        LET bytes == SubSeq(disk.bytes, handle.offset + 1, Len(disk.bytes))
            r == file_read(bytes, T, length)
        IN  /\ outcome' = [op |-> "read", err |-> r.err, ret |-> r.ret,
                           cursor |-> r.s.pos, called |-> r.called, at |-> r.at,
                           T |-> T, length |-> length, input |-> bytes]
            /\ pc' = IF r.err = "none" THEN "body" ELSE "raised"
    /\ handle' = [handle EXCEPT !.offset = Len(disk.bytes)]
    /\ UNCHANGED <<disk, mode, written>>
    /\ UNCHANGED streamVars

\* Between sessions the file may be replaced by any byte source: one byte
\* complemented, the file cut short, or a byte added at the end
Tamper ==
    /\ pc = "start"
    /\ disk.exists
    /\ disk.origin # "foreign"
    /\ \/ \E i \in 1..Len(disk.bytes) :
            disk' = [disk EXCEPT !.bytes[i] = 255 - @, !.origin = "foreign"]
       \/ \E k \in 0..(Len(disk.bytes) - 1) :
            disk' = [disk EXCEPT !.bytes = SubSeq(@, 1, k), !.origin = "foreign"]
       \/ disk' = [disk EXCEPT !.bytes = Append(@, 0), !.origin = "foreign"]
    /\ UNCHANGED <<handle, pc, mode, written, outcome>>
    /\ UNCHANGED streamVars

\* ... or by a file from elsewhere
Replace ==
    /\ pc = "start"
    /\ \E bytes \in ForeignSources :
        disk' = [exists |-> TRUE, bytes |-> bytes, origin |-> "foreign"]
    /\ UNCHANGED <<handle, mode, pc, written, outcome>>
    /\ UNCHANGED streamVars

----------------------------------------------------------------------------
(* Specifications *)

InitStream ==
    /\ stream = ByteStream(<<>>).bytes
    /\ position = ByteStream(<<>>).pos
    /\ result = [op |-> "init", err |-> "none", ret |-> <<>>, arg |-> <<>>, length |-> 0,
                 pre |-> ByteStream(<<>>)]
    /\ lastWrite = NoWrite
    /\ ops = 0

InitFile ==
    /\ disk = [exists |-> FALSE, bytes |-> <<>>, origin |-> "none"]
    /\ handle = [state |-> "none", offset |-> 0]
    /\ pc = "start"
    /\ mode = "r"
    /\ written = [array |-> <<>>, T |-> IntArray, length |-> 0, err |-> "never"]
    /\ outcome = NoOutcome

Init == InitStream /\ InitFile

Next ==
    \/ NewStream
    \/ CallRead
    \/ CallReadInt
    \/ CallReadStr
    \/ CallReadBool
    \/ CallWriteInt
    \/ CallWriteStr
    \/ CallWriteBool

Spec == Init /\ [][Next]_vars

NextFile ==
    \/ Enter
    \/ Replace
    \/ Exit
    \/ FileWrite
    \/ FileRead
    \/ Tamper

SpecFile == Init /\ [][NextFile]_vars

NextObject ==
    \/ CallHeader
    \/ CallMetadata
    \/ CallSerialize
    \/ CallWriteData
    \/ CallReadHeader
    \/ CallDeserialize
    \/ CallConvert
    \/ CallDeconvert

SpecObject == Init /\ [][NextObject]_vars

----------------------------------------------------------------------------
(* Properties of the ByteStream, checked under Spec *)

\* the number of bytes an unsigned int needs
ByteLength(value) ==
    IF value = <<>> THEN 0
    ELSE 2 * Len(value) - (IF value[1] < 256 THEN 1 ELSE 0)

\* the last call was a read of n > 0 bytes with fewer than n bytes left
OverReading ==
    /\ \/ result.op \in {"read", "read_int", "read_bool"}
       \/ result.op = "read_str" /\ result.length > 0
    /\ result.length > 0
    /\ result.pre.pos + result.length > Len(result.pre.bytes)

\* C4: a read of n > 0 bytes with position + n > length (by read, read_int,
\* read_str with a length, or read_bool) raises STFOverRead, returns no
\* data, and leaves the position and the bytes as they were.
C4_OverReadDetected ==
    OverReading =>
        /\ result.err = "STFOverRead"
        /\ result.ret = <<>>
        /\ position = result.pre.pos
        /\ stream = result.pre.bytes

\* read(5) on a buffer of 3 bytes
C4_Witness ==
    /\ OverReading
    /\ result.op = "read"
    /\ result.length = 5
    /\ Len(result.pre.bytes) = 3
    /\ result.err = "STFOverRead"

\* the last call was read_int(L) with the cursor where the last
\* write_int(v, length=L) put its bytes
ReadBackInt ==
    /\ result.op = "read_int"
    /\ lastWrite.kind = "int"
    /\ result.length = lastWrite.length
    /\ result.pre.pos = lastWrite.start

\* C6: for L in {1,2,4,8} and 0 <= v < 2^(8L), write_int(v, length=L)
\* succeeds and appends exactly L bytes, the least significant last, and
\* read_int(L) at the place of those bytes returns v and advances the
\* cursor by L.
C6_IntRoundTrip ==
    /\ (result.op = "write_int" /\ ByteLength(result.arg) <= result.length) =>
        /\ result.err = "none"
        /\ Len(stream) = Len(result.pre.bytes) + result.length
        /\ SubSeq(stream, 1, Len(result.pre.bytes)) = result.pre.bytes
        /\ stream[Len(stream)] =
              (IF result.arg = <<>> THEN 0 ELSE result.arg[Len(result.arg)] % 256)
        /\ position = result.pre.pos
    /\ ReadBackInt =>
        /\ result.err = "none"
        /\ result.ret = lastWrite.value
        /\ lastWrite.size = lastWrite.length
        /\ position = lastWrite.start + lastWrite.length

\* 2^64 - 1 written in 8 bytes on an empty buffer and read back
C6_Witness ==
    /\ ReadBackInt
    /\ lastWrite.start = 0
    /\ lastWrite.length = 8
    /\ lastWrite.value = <<65535, 65535, 65535, 65535>>
    /\ result.ret = lastWrite.value

\* the last call was the default read_str() with the cursor where the last
\* write_str(s) put its bytes, s holding no zero character
ReadBackText ==
    /\ result.op = "read_str"
    /\ result.length = 0
    /\ lastWrite.kind = "str"
    /\ \A i \in 1..Len(lastWrite.value) : lastWrite.value[i] # 0
    /\ result.pre.pos = lastWrite.start

\* C7: for a text s without zero character, write_str(s) followed by the
\* default read_str() returns s and leaves the cursor one byte past the
\* terminator.
C7_TextRoundTrip ==
    ReadBackText =>
        /\ result.err = "none"
        /\ result.ret = lastWrite.value
        /\ position = lastWrite.start + lastWrite.size

\* the last call was read_bool() with the cursor where the last
\* write_bool(b) put its byte
ReadBackBool ==
    /\ result.op = "read_bool"
    /\ lastWrite.kind = "bool"
    /\ result.pre.pos = lastWrite.start

\* C8: write_bool(b) appends exactly one byte and a following read_bool()
\* returns b and advances the cursor by one, for b true and b false.
C8_BoolRoundTrip ==
    ReadBackBool =>
        /\ lastWrite.size = 1
        /\ result.err = "none"
        /\ result.ret = lastWrite.value
        /\ position = result.pre.pos + 1

\* the last call was the default read_str() with no zero byte at or after
\* the cursor
Unterminated ==
    /\ result.op = "read_str"
    /\ result.length = 0
    /\ \A i \in (result.pre.pos + 1)..Len(result.pre.bytes) : result.pre.bytes[i] # 0

\* C10: the default read_str() on a buffer with no zero byte at or after
\* the cursor raises STFUnboundStringException and leaves the cursor (and
\* the bytes) as they were.
C10_UnboundString ==
    Unterminated =>
        /\ result.err = "STFUnboundStringException"
        /\ position = result.pre.pos
        /\ stream = result.pre.bytes

\* a cursor past the start with unread bytes left, none of them zero
C10_Witness ==
    /\ Unterminated
    /\ result.pre.pos > 0
    /\ result.pre.pos < Len(result.pre.bytes)
    /\ result.err = "STFUnboundStringException"

----------------------------------------------------------------------------
(* Properties of arrays and of the session, checked under SpecFile *)

\* the bytes of positions from + 1 .. from + n of the file
Field(bytes, from, n) == SubSeq(bytes, from + 1, from + n)

\* the session has just read the whole file
HasRead == outcome.op = "read" /\ outcome.input = disk.bytes

\* the session has just read, as the type and with the length it was written
\* with, the file that the last write produced
ReadBackArray ==
    /\ HasRead
    /\ disk.origin = "write"
    /\ written.err = "none"
    /\ outcome.T = written.T
    /\ outcome.length = written.length

\* C1: an array of integers written with field width L, or a Deck of
\* Cards, is read back equal: same elements in the same order; and the
\* metadata block of the file is the element count in a field of
\* max_elem_field_width bytes.
C1_ArrayRoundTrip ==
    ReadBackArray =>
        LET T == written.T
            at == 8 + INT_SIZE + T.max_field_size
        IN  /\ outcome.err = "none"
            /\ outcome.ret = written.array
            /\ outcome.cursor = Len(disk.bytes)
            /\ from_bytes(Field(disk.bytes, at, T.max_metadata_size))
                  = NatToInt(T.max_elem_field_width)
            /\ from_bytes(Field(disk.bytes, at + T.max_metadata_size,
                                T.max_elem_field_width))
                  = NatToInt(Len(written.array))

\* an array of two different integers read back
C1_Witness ==
    /\ ReadBackArray
    /\ written.T = IntArray
    /\ Len(written.array) >= 2
    /\ written.array[1] # written.array[2]
    /\ outcome.ret = written.array

\* the file read has at least four bytes and they are not the magic number
BadMagic ==
    /\ outcome.op = "read"
    /\ Len(outcome.input) >= 4
    /\ from_bytes(Field(outcome.input, 0, 4)) # MAGIC

\* C2: when the first 4 bytes of the file are not MAGIC, read raises
\* STFMagicNumberException, whatever follows them, and also when fewer than
\* 8 bytes are there.
C2_MagicFirst ==
    BadMagic => outcome.err = "STFMagicNumberException"

\* the file read starts with the magic number and four more bytes
GoodMagic ==
    /\ outcome.op = "read"
    /\ Len(outcome.input) >= 8
    /\ from_bytes(Field(outcome.input, 0, 4)) = MAGIC

\* C3: with the right magic number and a version that is not VERSION, read
\* raises STFVersionException and does not call deserialize; with both
\* right it raises neither envelope error and calls deserialize with the
\* cursor at 8.
C3_VersionGate ==
    GoodMagic =>
        IF from_bytes(Field(outcome.input, 4, 4)) # VERSION
        THEN outcome.err = "STFVersionException" /\ ~outcome.called
        ELSE /\ outcome.err \notin {"STFMagicNumberException", "STFVersionException"}
             /\ outcome.called
             /\ outcome.at = 8

\* a file with the right magic number and another version was refused
C3_Witness ==
    /\ GoodMagic
    /\ from_bytes(Field(outcome.input, 4, 4)) # VERSION
    /\ outcome.err = "STFVersionException"

\* C5: in the output of serialize(o, options) the ContentSize field is the
\* number of data bytes that follow the header and ContentHash is the hash
\* of those bytes.
C5_HeaderDescribesPayload ==
    (pc = "done" /\ disk.origin = "write" /\ written.err = "none") =>
        LET T == written.T
            head == 8 + INT_SIZE + T.max_field_size + T.max_metadata_size
                    + T.max_elem_field_width
            payload == SubSeq(disk.bytes, head + 1, Len(disk.bytes))
        IN  /\ from_bytes(Field(disk.bytes, 8 + INT_SIZE, T.max_field_size))
                  = NatToInt(Len(payload))
            /\ from_bytes(Field(disk.bytes, 8, INT_SIZE)) = hash(payload)

\* C9: the handle is open exactly inside the with-block: opened on entry,
\* and closed on every way out of the block, an exception included, so that
\* no state outside a block has an open handle.
C9_ScopedRelease ==
    /\ pc = "start" => handle.state # "open"
    /\ pc \in {"body", "done", "raised"} => handle.state = "open"

\* a block left by an exception of read, its handle closed
C9_Witness ==
    /\ pc = "start"
    /\ outcome.op = "exit"
    /\ outcome.err \in {"STFMagicNumberException", "STFVersionException", "STFOverRead"}
    /\ handle.state = "closed"

----------------------------------------------------------------------------
(* The cursor of the ByteStream, checked under Spec *)

ReadOps == {"read", "read_int", "read_str", "read_bool"}
WriteOps == {"write", "write_int", "write_str", "write_bool"}

IsPrefix(a, b) == Len(a) <= Len(b) /\ SubSeq(b, 1, Len(a)) = a

\* the cursor is within the contents, no call moves it back, a successful
\* read(n) moves it by n and returns n bytes, and a write leaves it and only
\* appends
CursorMoves ==
    /\ 0 <= position
    /\ position <= Len(stream)
    /\ result.op \in ReadOps \cup WriteOps =>
        /\ position >= result.pre.pos
        /\ (result.op = "read" /\ result.err = "none") =>
            /\ position = result.pre.pos + result.length
            /\ Len(result.ret) = result.length
        /\ result.op \in WriteOps =>
            /\ position = result.pre.pos
            /\ IsPrefix(result.pre.bytes, stream)

----------------------------------------------------------------------------
(* Properties of the object calls, checked under SpecObject *)

\* T.read_header has been called at the start of a stream that begins with
\* the header of an array of type T
HeaderRead ==
    /\ result.op = "read_header"
    /\ result.pre.pos = 0
    /\ lastWrite.kind = "object"

\* C11: read_header on a buffer that starts with o.header() returns the
\* Header made of the hash of o.data(), the length of o.data() and
\* o.metadata(), and moves the cursor by exactly the length of o.header(),
\* for a type with metadata, for one without and for overridden widths.
C11_HeaderRoundTrip ==
    HeaderRead =>
        LET T == lastWrite.value.T
            o == lastWrite.value.o
            d == data(o, T, INT_SIZE).bytes
        IN  /\ result.err = "none"
            /\ result.ret = [hash |-> hash(d), size |-> NatToInt(Len(d)),
                             metadata |-> metadata(o, T).bytes]
            /\ position = Len(header(o, T).bytes)

\* the header of a non-empty array of a type without metadata has been read
\* with the data still ahead of the cursor
C11_Witness ==
    /\ HeaderRead
    /\ ~lastWrite.value.T.has_metadata
    /\ lastWrite.value.o # <<>>
    /\ result.err = "none"
    /\ position < Len(stream)

\* convert(item) gave the bytes the writer of the item's kind gives
ConvertedBy(kind) ==
    LET item == result.arg.item
        fresh == ByteStream(<<>>)
    IN  CASE kind = "bool" -> result.ret = write_bool(fresh, item).s.bytes
          [] kind = "int" -> result.ret = write_int(fresh, item, INT_SIZE).s.bytes
          [] kind = "str" -> result.ret = write_str(fresh, item, TRUE).s.bytes
          [] kind = "Card" -> result.ret = Card_data(item).s.bytes
          [] OTHER -> TRUE

\* C13: convert applied to a boolean uses the boolean writer, so
\* convert(true) and convert(false) each give the 1-byte encoding write_bool
\* gives, and deconvert with target kind boolean uses the boolean reader and
\* consumes exactly 1 byte; integers, text and objects go to their own
\* writer and reader.
C13_DispatchByKind ==
    /\ (result.op = "convert" /\ result.arg.kind # "float") =>
        /\ result.err = "none"
        /\ ConvertedBy(result.arg.kind)
    /\ (result.op = "deconvert" /\ result.arg.kind = "bool"
            /\ Len(result.pre.bytes) > result.pre.pos) =>
        /\ result.err = "none"
        /\ position = result.pre.pos + BOOL_LENGTH

\* T.deserialize has been called at the start of a stream made for type T
Deserialized ==
    /\ result.op = "deserialize"
    /\ result.pre.pos = 0
    /\ lastWrite.kind = "object"

\* the positions of the ContentHash and ContentSize fields in the stream:
\* those of the root header and, in an array of arrays, those of the header
\* of each element
HashSizeFields ==
    LET T == lastWrite.value.T
        root == 1..(INT_SIZE + T.max_field_size)
        p == lastWrite.value.p
        first == INT_SIZE + T.max_field_size + T.max_metadata_size
                 + T.max_elem_field_width
        sizes == [j \in 1..Len(p) |-> Len(object_serialize(p[j], "STFArray").s.bytes)]
    IN  IF T.elem = "STFArray" /\ lastWrite.value.complete
        THEN root \cup UNION {(first + Sum(sizes, 1, k - 1) + 1) ..
                              (first + Sum(sizes, 1, k - 1) + INT_SIZE
                                     + IntArray.max_field_size) : k \in 1..Len(p)}
        ELSE root

\* byte sequences that differ from bytes in the given positions only: one
\* of the bytes complemented, all of them zero, all of them 255
Variants(bytes, fields) ==
    {[bytes EXCEPT ![i] = 255 - @] : i \in fields \cap (1..Len(bytes))}
    \cup {[i \in 1..Len(bytes) |-> IF i \in fields THEN v ELSE bytes[i]] : v \in {0, 255}}

\* the envelope SerializedTreeFile.write puts before the root object
Envelope == write_int(write_int(ByteStream(<<>>), MAGIC, 4).s, VERSION, 4).s.bytes

\* C14: two inputs that differ only in the ContentHash and ContentSize
\* fields of a header, root or nested, give STFArray.deserialize and
\* SerializedTreeFile.read the same outcome (the same object or the same
\* error) and the same final cursor: the stored hash and size are compared
\* with nothing.
C14_IntegrityNotEnforced ==
    Deserialized =>
        LET T == lastWrite.value.T
            length == result.length
            here == file_read(Envelope \o result.pre.bytes, T, length)
        IN  \A other \in Variants(result.pre.bytes, HashSizeFields) :
                LET r == deserialize(ByteStream(other), T, length)
                    there == file_read(Envelope \o other, T, length)
                IN  /\ r.err = result.err
                    /\ r.ret = result.ret
                    /\ r.s.pos = position
                    /\ there.err = here.err
                    /\ there.ret = here.ret
                    /\ there.s.pos = here.s.pos

\* an array of arrays with a non-empty element has been deserialized
C14_Witness ==
    /\ Deserialized
    /\ lastWrite.value.T.elem = "STFArray"
    /\ lastWrite.value.complete
    /\ result.err = "none"
    /\ \E k \in 1..Len(result.ret) : result.ret[k] # <<>>

\* T.deserialize has been called, with the length option of the data, on a
\* stream made of the header of array o and the data of array p
CountedDecode ==
    /\ Deserialized
    /\ lastWrite.value.T.has_metadata
    /\ result.length = lastWrite.length

\* C15: STFArray.deserialize makes exactly ElementCount calls of deconvert
\* on the shared cursor: with fewer than ElementCount encoded elements after
\* the header the call ends in the over-read error; with more it returns an
\* array of ElementCount elements without error and leaves the cursor
\* before the end of the buffer.
C15_CountTrusted ==
    CountedDecode =>
        LET ElementCount == Len(lastWrite.value.o)
            held == Len(lastWrite.value.p)
        IN  IF held < ElementCount
            THEN result.err = "STFOverRead"
            ELSE /\ result.err = "none"
                 /\ Len(result.ret) = ElementCount
                 /\ held > ElementCount => position < Len(stream)

\* o.metadata() or o.serialize() has been called on an array of a type with
\* an element-count field
CountWritten ==
    /\ result.op \in {"metadata", "serialize"}
    /\ result.arg.T.has_metadata

\* the number of elements and the largest value of the element-count field
ElementCount == Len(result.arg.o)
CountMax == FieldMax(result.arg.T.max_elem_field_width)

\* the element-count field in the bytes serialize returned
CountField ==
    LET T == result.arg.T
    IN  Field(result.ret, INT_SIZE + T.max_field_size + T.max_metadata_size,
              T.max_elem_field_width)

\* a count equal to the largest value of the field is written exactly
CountAtMaxExact ==
    (CountWritten /\ ElementCount = CountMax) =>
        /\ result.op = "metadata" =>
            /\ result.err = "none"
            /\ Len(result.ret) = result.arg.T.max_elem_field_width
            /\ from_bytes(result.ret) = NatToInt(ElementCount)
        /\ (result.op = "serialize" /\ result.err = "none") =>
            from_bytes(CountField) = NatToInt(ElementCount)

\* C16: serializing an array whose element count exceeds the largest value
\* of its element-count field is silently capped: metadata() and
\* serialize() complete without signaling any error; a count equal to the
\* field maximum is written exactly.
C16_CountSilentlyCapped ==
    /\ (CountWritten /\ ElementCount > CountMax) => result.err = "none"
    /\ CountAtMaxExact

\* C16 amended: an element count beyond the largest value of the field is
\* not capped: metadata() raises OverflowError and serialize() ends in an
\* error, neither returning any bytes; a count equal to the field maximum
\* is written exactly.
C16_CountOverflowRaises ==
    /\ (CountWritten /\ ElementCount > CountMax) =>
        /\ result.op = "metadata" => result.err = "OverflowError"
        /\ result.err # "none"
        /\ result.ret = <<>>
    /\ CountAtMaxExact

\* metadata() has been called on an array with one element more than the
\* field can count
C16_Witness ==
    /\ CountWritten
    /\ result.op = "metadata"
    /\ ElementCount = CountMax + 1
    /\ result.err = "OverflowError"

\* the default read_str() has been called through deconvert(str)
TextRead ==
    /\ result.op = "deconvert"
    /\ result.arg.kind = "str"

\* the cursor has moved past the bytes up to the next zero byte and past
\* that byte
PastOneTerminator ==
    /\ position > result.pre.pos
    /\ stream[position] = 0
    /\ \A i \in (result.pre.pos + 1)..(position - 1) : stream[i] # 0

\* C17: the default read_text() ends on every buffer and at every cursor,
\* returning a text with the cursor past one terminator or signaling an
\* error of its own, also when the byte at the cursor is the terminator (the
\* encoding of the empty text); an array of texts that holds an empty text
\* is deserialized in finitely many steps.  The call that never ends shows
\* in the source as RecursionError.
C17_TextReadTerminates ==
    /\ TextRead =>
        \/ result.err = "none" /\ PastOneTerminator
        \/ result.err \in {"STFUnboundStringException", "UnicodeDecodeError"}
    /\ (Deserialized /\ lastWrite.value.T.elem = "str") =>
        result.err # "RecursionError"

====
